---- MODULE Spec2Model ----
(***************************************************************************)
(* A model of nomad_luqy_plugin.parsers.parser: parse_multi, the parser of *)
(* LuQY Pro photoluminescence files, with _canon_key and the two methods   *)
(* of LuQYParser that call into it, is_mainfile and parse.                 *)
(*                                                                         *)
(* Text lines are TLA+ strings; the string operations of the code (strip,  *)
(* split, lower, replace, float) are operators that work character by      *)
(* character.  A Python float is modelled as an exact decimal              *)
(* [m |-> mantissa, e |-> number of fraction digits] in normal form, and   *)
(* NaN as a value of its own: binary rounding is outside the model.        *)
(***************************************************************************)
EXTENDS Integers, Sequences, FiniteSets, TLC

VARIABLES
    lines,               \* the input: a sequence of text lines
    pc,                  \* the position inside parse_multi
    raised,              \* "none", or the exception that left parse_multi
    delim_idx,
    times,
    times_line_idx,
    num_measurements,
    settings_vals_list,
    result_vals_list,
    idx,                 \* the cursor of the loop that is running
    start_idx,
    wavelengths,
    lum_lists,
    raw_lists,
    dark_lists,
    raw_arrays,
    dark_arrays,
    canon_arg,           \* _canon_key: the argument s
    canon_ret,           \* _canon_key: the string returned, None before the call
    filename,            \* is_mainfile: the base name of the file
    file_lines,          \* the decoded lines of the file, None when it cannot be read
    is_mainfile_ret,     \* is_mainfile: the value returned, None before the call
    child_archives,      \* parse: the mapping of child keys to the data of each child
    archive_data,        \* parse: archive.data
    measurements         \* parse: the measurement records

\* the state of the callers of parse_multi
callerVars == <<canon_arg, canon_ret, filename, file_lines, is_mainfile_ret,
                child_archives, archive_data, measurements>>

vars == <<lines, pc, raised, delim_idx, times, times_line_idx, num_measurements,
          settings_vals_list, result_vals_list, idx, start_idx, wavelengths,
          lum_lists, raw_lists, dark_lists, raw_arrays, dark_arrays, callerVars>>

----------------------------------------------------------------------------
(* Characters and strings                                                  *)

TAB == "\t"

NBSP == " "

Char(s, i) == SubSeq(s, i, i)

\* str.isspace() for the characters of the inputs: str.strip(), float() and
\* the regular expression \s all use Unicode white space, NBSP included
IsSpace(c) == c \in {" ", TAB, NBSP}

IsDigit(c) == c \in {"0", "1", "2", "3", "4", "5", "6", "7", "8", "9"}

\* the position of the first c of s at or after position i, 0 without one
RECURSIVE FindChar(_, _, _)
FindChar(s, c, i) ==
    IF i > Len(s) THEN 0 ELSE IF Char(s, i) = c THEN i ELSE FindChar(s, c, i + 1)

\* c in s
Contains(s, c) == FindChar(s, c, 1) # 0

RECURSIVE LStrip(_)
LStrip(s) ==
    IF s # "" /\ IsSpace(Char(s, 1)) THEN LStrip(SubSeq(s, 2, Len(s))) ELSE s

RECURSIVE RStrip(_)
RStrip(s) ==
    IF s # "" /\ IsSpace(Char(s, Len(s))) THEN RStrip(SubSeq(s, 1, Len(s) - 1)) ELSE s

\* str.strip()
Strip(s) == RStrip(LStrip(s))

UpperCase == "ABCDEFGHIJKLMNOPQRSTUVWXYZ"

LowerCase == "abcdefghijklmnopqrstuvwxyz"

LowerChar(c) ==
    IF \E i \in 1..Len(UpperCase) : Char(UpperCase, i) = c
    THEN Char(LowerCase, CHOOSE i \in 1..Len(UpperCase) : Char(UpperCase, i) = c)
    ELSE c

\* str.lower()
RECURSIVE Lower(_)
Lower(s) ==
    IF s = "" THEN "" ELSE LowerChar(Char(s, 1)) \o Lower(SubSeq(s, 2, Len(s)))

\* str.replace(old, new) for a one-character old
RECURSIVE ReplaceChar(_, _, _)
ReplaceChar(s, old, new) ==
    IF s = "" THEN ""
    ELSE (IF Char(s, 1) = old THEN new ELSE Char(s, 1))
         \o ReplaceChar(SubSeq(s, 2, Len(s)), old, new)

\* the position of the first tab of s, 0 when it has none
FirstTab(s) == FindChar(s, TAB, 1)

\* s.split(c) for a one-character c: empty cells are kept
RECURSIVE SplitOn(_, _)
SplitOn(s, c) ==
    LET p == FindChar(s, c, 1)
    IN  IF p = 0 THEN <<s>>
        ELSE <<SubSeq(s, 1, p - 1)>> \o SplitOn(SubSeq(s, p + 1, Len(s)), c)

\* line.split('\t')
SplitTab(s) == SplitOn(s, TAB)

\* the position of the first white space of s at or after position i, 0
\* without one
RECURSIVE FindSpace(_, _)
FindSpace(s, i) ==
    IF i > Len(s) THEN 0 ELSE IF IsSpace(Char(s, i)) THEN i ELSE FindSpace(s, i + 1)

FirstSpace(s) == FindSpace(s, 1)

\* re.split(r'\s+', s) of a stripped, non-empty s
RECURSIVE SplitWs(_)
SplitWs(s) ==
    LET p == FirstSpace(s)
    IN  IF p = 0 THEN <<s>>
        ELSE <<SubSeq(s, 1, p - 1)>> \o SplitWs(LStrip(SubSeq(s, p + 1, Len(s))))

\* line.split('\t') if '\t' in line else re.split(r'\s+', line.strip())
SplitLine(line) ==
    IF Contains(line, TAB) THEN SplitTab(line) ELSE SplitWs(Strip(line))

----------------------------------------------------------------------------
(* Numbers                                                                 *)

NaN == [m |-> 0, e |-> -1]

RECURSIVE Norm(_, _)
Norm(m, e) ==
    IF e > 0 /\ m % 10 = 0 THEN Norm(m \div 10, e - 1) ELSE [m |-> m, e |-> e]

DigitVal(c) == CHOOSE d \in 0..9 : Char("0123456789", d + 1) = c

AllDigits(s) == \A i \in 1..Len(s) : IsDigit(Char(s, i))

RECURSIVE DigitsToNat(_)
DigitsToNat(s) ==
    IF s = "" THEN 0
    ELSE 10 * DigitsToNat(SubSeq(s, 1, Len(s) - 1)) + DigitVal(Char(s, Len(s)))

FirstDot(s) == FindChar(s, ".", 1)

\* an unsigned decimal literal: digits, digits '.' [digits], or '.' digits
UnsignedOk(u) ==
    LET p == FirstDot(u)
    IN  IF p = 0 THEN u # "" /\ AllDigits(u)
        ELSE /\ AllDigits(SubSeq(u, 1, p - 1))
             /\ AllDigits(SubSeq(u, p + 1, Len(u)))
             /\ Len(u) > 1

UnsignedVal(u) ==
    LET p == FirstDot(u)
    IN  IF p = 0 THEN Norm(DigitsToNat(u), 0)
        ELSE Norm(DigitsToNat(SubSeq(u, 1, p - 1) \o SubSeq(u, p + 1, Len(u))),
                  Len(u) - p)

Negate(v) == [m |-> 0 - v.m, e |-> v.e]

\* float(s): white space around the literal is ignored, one sign is allowed;
\* [ok |-> FALSE] stands for ValueError.  Exponents, underscores and the
\* words inf and nan do not occur in the inputs of the model.
FloatOf(s) ==
    LET t == Strip(s)
        signed == t # "" /\ Char(t, 1) \in {"+", "-"}
        u == IF signed THEN SubSeq(t, 2, Len(t)) ELSE t
    IN  IF ~UnsignedOk(u) THEN [ok |-> FALSE, v |-> NaN]
        ELSE [ok |-> TRUE,
              v |-> IF signed /\ Char(t, 1) = "-" THEN Negate(UnsignedVal(u))
                    ELSE UnsignedVal(u)]

\* float(s.replace(',', '.'))
ParseFloat(s) == FloatOf(ReplaceChar(s, ",", "."))

\* v *= 100.0
Times100(v) ==
    IF v.e >= 2 THEN [m |-> v.m, e |-> v.e - 2]
    ELSE IF v.e = 1 THEN [m |-> v.m * 10, e |-> 0]
    ELSE [m |-> v.m * 100, e |-> 0]

----------------------------------------------------------------------------
(* Python values                                                           *)

\* an optional value: None, or the value wrapped
None == <<>>

Some(x) == <<x>>

\* dict()
EmptyDict == <<>>

\* d[k] = v
DictSet(d, k, v) == (k :> v) @@ d

Max(a, b) == IF a >= b THEN a ELSE b

\* [x for x in s if keep], for strings
RECURSIVE NonEmptyStripped(_)
NonEmptyStripped(s) ==
    IF s = <<>> THEN <<>>
    ELSE (IF Strip(Head(s)) # "" THEN <<Strip(Head(s))>> ELSE <<>>)
         \o NonEmptyStripped(Tail(s))

----------------------------------------------------------------------------
(* The header tables and the key canonicalizer                             *)

header_map_settings ==
    ("Time" :> "timestamp")
    @@ ("Laser intensity (mW/cm^2)" :> "laser_intensity")
    @@ ("Laser intensity (suns)" :> "laser_intensity")
    @@ ("Bias Voltage (V)" :> "bias_voltage")
    @@ ("Bias voltage (V)" :> "bias_voltage")
    @@ ("SMU current density (mA/cm^2)" :> "smu_current_density")
    @@ ("Integration Time (ms)" :> "integration_time")
    @@ ("Delay time (s)" :> "delay_time")
    @@ ("EQE @ laser wavelength" :> "eqe_at_laser")
    @@ ("Laser spot size (cm^2)" :> "laser_spot_size")
    @@ ("Subcell area (cm^2)" :> "subcell_area")
    @@ ("Subcell" :> "subcell")

header_map_result ==
    ("LuQY (%)" :> "luqy")
    @@ ("QFLS (eV)" :> "qfls")
    @@ ("QFLS LuQY (eV)" :> "qfls")
    @@ ("QFLS HET (eV)" :> "qfls_het")
    @@ ("QFLS Confidence" :> "qfls_confidence")
    @@ ("QFLS confidence" :> "qfls_confidence")
    @@ ("Bandgap (eV)" :> "bandgap")
    @@ ("Jsc (mA/cm^2)" :> "derived_jsc")

\* s starts with p
StartsWith(s, p) == Len(s) >= Len(p) /\ SubSeq(s, 1, Len(p)) = p

\* str.replace(old, new): the occurrences of old, left to right, not overlapping
RECURSIVE Replace(_, _, _)
Replace(s, old, new) ==
    IF s = "" THEN ""
    ELSE IF StartsWith(s, old) THEN new \o Replace(SubSeq(s, Len(old) + 1, Len(s)), old, new)
    ELSE Char(s, 1) \o Replace(SubSeq(s, 2, Len(s)), old, new)

\* unicodedata.normalize('NFKC', c) for the characters of the inputs: the
\* superscript two decomposes to the digit, NBSP to the space
NFKCChar(c) == IF c = "²" THEN "2" ELSE IF c = NBSP THEN " " ELSE c

RECURSIVE NFKC(_)
NFKC(s) == IF s = "" THEN "" ELSE NFKCChar(Char(s, 1)) \o NFKC(SubSeq(s, 2, Len(s)))

\* re.sub(r'\s+', ' ', s)
RECURSIVE CollapseWs(_)
CollapseWs(s) ==
    IF s = "" THEN ""
    ELSE IF IsSpace(Char(s, 1)) THEN " " \o CollapseWs(LStrip(s))
    ELSE Char(s, 1) \o CollapseWs(SubSeq(s, 2, Len(s)))

\* _canon_key with the NFKC normalization applied after the replacements
_canon_key_NormalizeLast(s) ==
    LET s2 == Strip(s)
        s3 == Replace(Replace(Replace(Replace(Replace(Replace(Replace(s2,
                  "cmÂ²", "cm^2"), "cm²", "cm^2"), "cm�", "cm^2"), "cm**2", "cm^2"),
                  "cm2", "cm^2"), "mA/cm2", "mA/cm^2"), "mA/cm²", "mA/cm^2")
    IN  CollapseWs(ReplaceChar(NFKC(s3), NBSP, " "))

_canon_key(s) ==
    LET s1 == ReplaceChar(NFKC(s), NBSP, " ")
        s2 == Strip(s1)
        s3 == Replace(Replace(Replace(Replace(Replace(Replace(Replace(s2,
                  "cmÂ²", "cm^2"), "cm²", "cm^2"), "cm�", "cm^2"), "cm**2", "cm^2"),
                  "cm2", "cm^2"), "mA/cm2", "mA/cm^2"), "mA/cm²", "mA/cm^2")
    IN  CollapseWs(s3)

----------------------------------------------------------------------------
(* parse_multi, step by step.  Indices are Python's: lines[i] is Line(i).  *)

Line(i) == lines[i + 1]

\* re.match(r'^-[-\\s]*$', line.strip()): a dash, then any of the
\* characters of the class [-\\s], which are the dash, the backslash and
\* the letter s
IsDelimiter(line) ==
    LET s == Strip(line)
    IN  /\ s # ""
        /\ Char(s, 1) = "-"
        /\ \A i \in 2..Len(s) : Char(s, i) \in {"-", "\\", "s"}

\* the index of the first delimiter line at or after index i, len(lines)
\* without one
RECURSIVE FirstDelimiter(_, _)
FirstDelimiter(ls, i) ==
    IF i >= Len(ls) THEN Len(ls)
    ELSE IF IsDelimiter(ls[i + 1]) THEN i ELSE FirstDelimiter(ls, i + 1)

\* DelimiterIndex with 0 instead of len(lines) for lines without delimiter
DelimiterIndex_NoneIsZero(ls) ==
    IF FirstDelimiter(ls, 0) = Len(ls) THEN 0 ELSE FirstDelimiter(ls, 0)

DelimiterIndex(ls) == FirstDelimiter(ls, 0)

FindDelimiter ==
    /\ pc = "start"
    /\ delim_idx' = DelimiterIndex(lines)
    /\ pc' = "detect"
    /\ UNCHANGED <<lines, raised, times, times_line_idx, num_measurements,
                   settings_vals_list, result_vals_list, idx, start_idx, wavelengths,
                   lum_lists, raw_lists, dark_lists, raw_arrays, dark_arrays>>
    /\ UNCHANGED callerVars

\* the time values of a row whose first value is a date prefix
RECURSIVE PrefixedTimes(_, _)
PrefixedTimes(date_prefix, vs) ==
    IF vs = <<>> THEN <<>>
    ELSE LET v == Strip(Head(vs))
         IN  <<IF Contains(v, "/") /\ Contains(v, ":") THEN v
               ELSE date_prefix \o " " \o v>>
             \o PrefixedTimes(date_prefix, Tail(vs))

\* the body of the time row loop for one line: whether the line ends the
\* loop (break) and the time values it sets
TimeRow(line) ==
    LET stripped == Strip(line)
        parts == SplitTab(line)
        isTime == Lower(Strip(parts[1])) = "time"
        values == IF isTime THEN Tail(parts) ELSE parts
    IN  IF stripped = "" THEN [hit |-> FALSE, times |-> <<>>]
        ELSE IF Contains(line, TAB)
        THEN IF Len(parts) > 2 /\ (isTime \/ Contains(parts[1], "/"))
             THEN [hit |-> TRUE,
                   times |-> IF /\ Contains(values[1], "/")
                                /\ ~Contains(values[1], ":")
                                /\ Len(values) > 1
                             THEN PrefixedTimes(Strip(values[1]), Tail(values))
                             ELSE NonEmptyStripped(values)]
             ELSE IF Len(parts) = 2 /\ isTime
             THEN [hit |-> TRUE, times |-> <<Strip(parts[2])>>]
             ELSE [hit |-> FALSE, times |-> <<>>]
        ELSE IF Contains(SplitWs(stripped)[1], "/")
             THEN [hit |-> TRUE, times |-> <<stripped>>]
             ELSE [hit |-> FALSE, times |-> <<>>]

\* the index of the first header line at or after index i that ends the time
\* row loop, -1 without one
RECURSIVE FirstTimeRow(_, _, _)
FirstTimeRow(ls, i, delim) ==
    IF i >= delim THEN -1
    ELSE IF TimeRow(ls[i + 1]).hit THEN i ELSE FirstTimeRow(ls, i + 1, delim)

TimeRowIndex(ls, delim) == FirstTimeRow(ls, 0, delim)

\* times, as the loop leaves it: None and [] are the same to all later code
DetectedTimes(ls, tli) == IF tli = -1 THEN <<>> ELSE TimeRow(ls[tli + 1]).times

\* NumMeasurements with the count of the time values ignored
NumMeasurements_AlwaysOne(ts) == 1

NumMeasurements(ts) == IF ts = <<>> THEN 1 ELSE Len(ts)

DetectTimeRow ==
    /\ pc = "detect"
    /\ times_line_idx' = TimeRowIndex(lines, delim_idx)
    /\ times' = DetectedTimes(lines, times_line_idx')
    /\ num_measurements' = NumMeasurements(times')
    /\ settings_vals_list' = [i \in 1..num_measurements' |-> EmptyDict]
    /\ result_vals_list' = [i \in 1..num_measurements' |-> EmptyDict]
    /\ idx' = 0
    /\ pc' = "header"
    /\ UNCHANGED <<lines, raised, delim_idx, start_idx, wavelengths,
                   lum_lists, raw_lists, dark_lists, raw_arrays, dark_arrays>>
    /\ UNCHANGED callerVars

\* one slot of the multi-value branch: the settings mapping after the cell
SettingCellMulti(d, key, val_str) ==
    IF key \in DOMAIN header_map_settings
    THEN LET target == header_map_settings[key]
             f == ParseFloat(val_str)
         IN  IF target = "subcell" THEN DictSet(d, target, val_str)
             ELSE IF f.ok
             THEN DictSet(d, target,
                          IF key = "Laser intensity (suns)" THEN Times100(f.v) ELSE f.v)
             ELSE d
    ELSE d

\* ResultCellMulti that stores NaN for a cell that does not parse
ResultCellMulti_StoreNaN(d, key, val_str) ==
    IF key \notin DOMAIN header_map_settings /\ key \in DOMAIN header_map_result
    THEN DictSet(d, header_map_result[key], ParseFloat(val_str).v)
    ELSE d

\* one slot of the multi-value branch: the results mapping after the cell
ResultCellMulti(d, key, val_str) ==
    IF key \notin DOMAIN header_map_settings /\ key \in DOMAIN header_map_result
    THEN LET f == ParseFloat(val_str)
         IN  IF f.ok THEN DictSet(d, header_map_result[key], f.v) ELSE d
    ELSE d

\* SettingCellSingle without the conversion of suns
SettingCellSingle_NoScale(d, key, val_str) ==
    IF key \in DOMAIN header_map_settings
    THEN LET target == header_map_settings[key]
             f == ParseFloat(val_str)
         IN  IF target = "subcell" THEN DictSet(d, target, val_str)
             ELSE IF f.ok THEN DictSet(d, target, f.v)
             ELSE d
    ELSE d

\* the single-value branch: the settings mapping of slot 0 after the cell
SettingCellSingle(d, key, val_str) ==
    IF key \in DOMAIN header_map_settings
    THEN LET target == header_map_settings[key]
             f == ParseFloat(val_str)
         IN  IF target = "subcell" THEN DictSet(d, target, val_str)
             ELSE IF f.ok
             THEN DictSet(d, target,
                          IF key = "Laser intensity (suns)" THEN Times100(f.v) ELSE f.v)
             ELSE d
    ELSE d

\* the single-value branch: the results mapping of slot 0 after the cell
ResultCellSingle(d, key, val_str) ==
    IF key \notin DOMAIN header_map_settings /\ key \in DOMAIN header_map_result
    THEN LET f == ParseFloat(val_str)
         IN  IF f.ok THEN DictSet(d, header_map_result[key], f.v) ELSE d
    ELSE d

\* whether the header loop passes over the line at index i
HeaderLineSkipped(line, i, tli) ==
    \/ Strip(line) = ""
    \/ i = tli
    \/ Len(SplitLine(line)) < 2

\* whether a header row goes through the multi-value branch
MultiBranch(values, n) == n > 1 /\ Len(values) >= n

\* the settings and results lists after the body of the header loop ran for
\* the line at index i
HeaderStep(line, i, tli, n, slist, rlist) ==
    LET parts == SplitLine(line)
        key == _canon_key(parts[1])
        values == Tail(parts)
    IN  IF HeaderLineSkipped(line, i, tli) THEN [s |-> slist, r |-> rlist]
        ELSE IF MultiBranch(values, n)
        THEN [s |-> [k \in 1..n |->
                        SettingCellMulti(slist[k], key,
                            IF k <= Len(values) THEN Strip(values[k]) ELSE "")],
              r |-> [k \in 1..n |->
                        ResultCellMulti(rlist[k], key,
                            IF k <= Len(values) THEN Strip(values[k]) ELSE "")]]
        ELSE [s |-> [slist EXCEPT ![1] = SettingCellSingle(@, key, Strip(values[1]))],
              r |-> [rlist EXCEPT ![1] = ResultCellSingle(@, key, Strip(values[1]))]]

HeaderRow ==
    /\ pc = "header"
    /\ idx < delim_idx
    /\ LET st == HeaderStep(Line(idx), idx, times_line_idx, num_measurements,
                            settings_vals_list, result_vals_list)
       IN  /\ settings_vals_list' = st.s
           /\ result_vals_list' = st.r
    /\ idx' = idx + 1
    /\ UNCHANGED <<lines, pc, raised, delim_idx, times, times_line_idx,
                   num_measurements, start_idx, wavelengths,
                   lum_lists, raw_lists, dark_lists, raw_arrays, dark_arrays>>
    /\ UNCHANGED callerVars

\* settings_vals_list[i]['timestamp'] = times[i]
WithTimestamps(slist, ts) ==
    IF ts = <<>> THEN slist
    ELSE [i \in 1..Len(slist) |-> DictSet(slist[i], "timestamp", ts[i])]

StoreTimestamps ==
    /\ pc = "header"
    /\ idx = delim_idx
    /\ settings_vals_list' = WithTimestamps(settings_vals_list, times)
    /\ pc' = "locate"
    /\ UNCHANGED <<lines, raised, delim_idx, times, times_line_idx,
                   num_measurements, result_vals_list, idx, start_idx, wavelengths,
                   lum_lists, raw_lists, dark_lists, raw_arrays, dark_arrays>>
    /\ UNCHANGED callerVars

\* the header loop from the line at index i on
RECURSIVE HeaderLoop(_, _, _, _, _, _, _)
HeaderLoop(ls, i, delim, tli, n, slist, rlist) ==
    IF i >= delim THEN [s |-> slist, r |-> rlist]
    ELSE LET st == HeaderStep(ls[i + 1], i, tli, n, slist, rlist)
         IN  HeaderLoop(ls, i + 1, delim, tli, n, st.s, st.r)

\* the settings and results lists parse_multi returns for the lines ls
ExtractHeader(ls) ==
    LET delim == DelimiterIndex(ls)
        tli == TimeRowIndex(ls, delim)
        ts == DetectedTimes(ls, tli)
        n == NumMeasurements(ts)
        st == HeaderLoop(ls, 0, delim, tli, n,
                         [i \in 1..n |-> EmptyDict], [i \in 1..n |-> EmptyDict])
    IN  [s |-> WithTimestamps(st.s, ts), r |-> st.r]

\* the index of the first line at or after i that is not blank, len(lines)
\* without one
RECURSIVE SkipBlank(_, _)
SkipBlank(ls, i) ==
    IF i < Len(ls) /\ Strip(ls[i + 1]) = "" THEN SkipBlank(ls, i + 1) ELSE i

\* the index of the first data row: one row, the column titles, is passed over
SpectralStart(ls, delim) ==
    LET s == SkipBlank(ls, delim + 1)
    IN  IF s < Len(ls) THEN s + 1 ELSE s

LocateSpectralStart ==
    /\ pc = "locate"
    /\ start_idx' = SpectralStart(lines, delim_idx)
    /\ idx' = start_idx'
    /\ wavelengths' = <<>>
    /\ lum_lists' = [i \in 1..num_measurements |-> <<>>]
    /\ raw_lists' = None
    /\ dark_lists' = None
    /\ pc' = "data"
    /\ UNCHANGED <<lines, raised, delim_idx, times, times_line_idx,
                   num_measurements, settings_vals_list, result_vals_list,
                   raw_arrays, dark_arrays>>
    /\ UNCHANGED callerVars

\* DataLineSkipped without the check of the first cell
DataLineSkipped_NoNumberCheck(line, n) ==
    \/ Strip(line) = ""
    \/ Len(SplitLine(line)) < 1 + n

\* whether the data loop passes over a line: blank, too few cells for the
\* measurement count, or a first cell that is no number
DataLineSkipped(line, n) ==
    LET parts == SplitLine(line)
    IN  \/ Strip(line) = ""
        \/ Len(parts) < 1 + n
        \/ ~ParseFloat(parts[1]).ok

\* Channels with the quotient rounded up
Channels_RoundedUp(values, n) == Max(1, (Len(values) + n - 1) \div n)

\* channels = max(1, len(values) // num_measurements)
Channels(values, n) == Max(1, Len(values) \div n)

\* float(values[idx_v].replace(',', '.')) with ValueError and IndexError
\* caught: NaN
CellOrNaN(values, idx_v) ==
    IF idx_v < Len(values) THEN ParseFloat(values[idx_v + 1]).v ELSE NaN

\* lst[i].append(x) on an optional list of lists that is created on first use
AppendTo(opt, n, i, x) ==
    LET lst == IF opt = None THEN [k \in 1..n |-> <<>>] ELSE opt[1]
    IN  Some([lst EXCEPT ![i + 1] = Append(@, x)])

\* the loop over the measurements of one accepted row, from measurement i on;
\* st holds lum_lists, raw_lists, dark_lists and whether IndexError was raised
RECURSIVE MeasurementLoop(_, _, _, _, _, _)
MeasurementLoop(i, idx_v, values, channels, n, st) ==
    IF i = n \/ st.raised THEN st
    ELSE IF idx_v >= Len(values) THEN [st EXCEPT !.raised = TRUE]
    ELSE LET st1 == [st EXCEPT !.lum[i + 1] = Append(@, CellOrNaN(values, idx_v))]
             st2 == IF channels >= 2
                    THEN [st1 EXCEPT !.raw = AppendTo(@, n, i, CellOrNaN(values, idx_v + 1))]
                    ELSE st1
             idx2 == IF channels >= 2 THEN idx_v + 2 ELSE idx_v + 1
             st3 == IF channels >= 3
                    THEN [st2 EXCEPT !.dark = AppendTo(@, n, i, CellOrNaN(values, idx2))]
                    ELSE st2
             idx3 == IF channels >= 3 THEN idx2 + 1 ELSE idx2
         IN  MeasurementLoop(i + 1, idx3, values, channels, n, st3)

\* the lists after the body of the data loop ran for one line
DataStep(line, n, wl, lum, raw, dark) ==
    LET parts == SplitLine(line)
        values == Tail(parts)
    IN  IF DataLineSkipped(line, n)
        THEN [wl |-> wl, lum |-> lum, raw |-> raw, dark |-> dark, raised |-> FALSE]
        ELSE [wl |-> Append(wl, ParseFloat(parts[1]).v)]
             @@ MeasurementLoop(0, 0, values, Channels(values, n), n,
                                [lum |-> lum, raw |-> raw, dark |-> dark, raised |-> FALSE])

DataRow ==
    /\ pc = "data"
    /\ idx < Len(lines)
    /\ LET st == DataStep(Line(idx), num_measurements, wavelengths,
                          lum_lists, raw_lists, dark_lists)
       IN  /\ wavelengths' = st.wl
           /\ lum_lists' = st.lum
           /\ raw_lists' = st.raw
           /\ dark_lists' = st.dark
           /\ raised' = IF st.raised THEN "IndexError" ELSE raised
           /\ pc' = IF st.raised THEN "raised" ELSE pc
    /\ idx' = idx + 1
    /\ UNCHANGED <<lines, delim_idx, times, times_line_idx, num_measurements,
                   settings_vals_list, result_vals_list, start_idx,
                   raw_arrays, dark_arrays>>
    /\ UNCHANGED callerVars

\* [np.asarray(lst) for lst in lists] if lists else None
ArraysOf(opt) == IF opt = None \/ opt[1] = <<>> THEN None ELSE opt

Finish ==
    /\ pc = "data"
    /\ idx >= Len(lines)
    /\ raw_arrays' = ArraysOf(raw_lists)
    /\ dark_arrays' = ArraysOf(dark_lists)
    /\ pc' = "done"
    /\ UNCHANGED <<lines, raised, delim_idx, times, times_line_idx,
                   num_measurements, settings_vals_list, result_vals_list, idx,
                   start_idx, wavelengths, lum_lists, raw_lists, dark_lists>>
    /\ UNCHANGED callerVars

Next ==
    \/ FindDelimiter
    \/ DetectTimeRow
    \/ HeaderRow
    \/ StoreTimestamps
    \/ LocateSpectralStart
    \/ DataRow
    \/ Finish

----------------------------------------------------------------------------
(* The inputs: files made of header lines, a delimiter with the row of     *)
(* column titles, and data rows.                                           *)

MaxHeaderLines == 2

MaxDataRows == 2

\* the sequences over S of length at most n
SeqsUpTo(S, n) == UNION {[1..k -> S] : k \in 0..n}

\* header lines: time rows of both styles, rows with as many values as
\* measurements, with fewer, with an unparseable cell, with decimal commas,
\* a categorical row, an unknown key, a row split on white space, a blank line
HeaderPool ==
    { "Time\t8/27/2025\t2:03 PM\t2:05 PM",
      "Time\t8/27/2025 2:03 PM\t8/27/2025 14:05\t2025-08-27T14:07:00",
      "Time\t8/27/2025 2:03 PM",
      "Laser intensity (suns)\t0.9722\t0.5\t1",
      "Laser intensity (suns)\t0,9722",
      "Laser intensity (suns)\t0.9\t0.8",
      "Laser intensity (mW/cm²)\t97.22\t50",
      "Laser intensity (mW/cm^2)\t0.7443",
      "LuQY (%)\t0.44\tabc\t0.42",
      "LuQY (%)\t0.44\t0.43",
      "Subcell\t--\ttop\t",
      "Comment\tfoo\t1\t2",
      "Bandgap (eV) 1,4226",
      "" }

\* the rows between the header and the data
Middles ==
    { <<"---", "Wavelength (nm)\tFlux">>,
      <<"-----", "", "Wavelength (nm)\tFlux", "500\t1\t2\t3">>,
      <<>> }

\* the header of the files that exercise the spectral table: no time row, or
\* a time row with one, two or three values
TimePrefixes ==
    { <<>>,
      <<"Time\t8/27/2025 2:03 PM">>,
      <<"Time\t8/27/2025\t2:03 PM\t2:05 PM">>,
      <<"Time\t8/27/2025\t2:03 PM\t2:05 PM\t2:07 PM">> }

\* data rows with one to six value cells, an unparseable value cell, a first
\* cell that is no number, a row split on white space with decimal commas, a
\* blank line
DataPool ==
    { "500\t1",
      "501\t2\t3",
      "502\t4\t5\t6",
      "503\t7\t8\t9\t10",
      "504\t11\t12\t13\t14\t15\t16",
      "505\tx\t17",
      "# end\t18\t19\t20",
      "549,5612 0 1501,733 1500,533",
      "" }

HeaderFiles ==
    {h \o m : h \in SeqsUpTo(HeaderPool, MaxHeaderLines), m \in Middles}

\* longer tables: a row that is skipped between two accepted rows, rows of
\* growing and of shrinking width, a blank line inside the table
LongTables ==
    { <<"501\t2\t3", "# end\t18\t19\t20", "502\t4\t5\t6">>,
      <<"500\t1", "501\t2\t3", "502\t4\t5\t6">>,
      <<"504\t11\t12\t13\t14\t15\t16", "505\tx\t17", "503\t7\t8\t9\t10">>,
      <<"502\t4\t5\t6", "", "500\t1">>,
      <<"549,5612 0 1501,733 1500,533", "500\t1", "# end\t18\t19\t20">> }

DataFiles ==
    {h \o <<"---", "Wavelength (nm)\tFlux">> \o d :
        h \in TimePrefixes, d \in SeqsUpTo(DataPool, MaxDataRows) \cup LongTables}

\* a file with every kind of row the loops pass over or fill with a default:
\* an unknown key, a lone cell, rows of empty cells, a row shorter than the
\* measurement count, a row of tabs only, unparseable cells
RowsOfAllKinds ==
    << "Time\t8/27/2025\t2:03 PM\t2:05 PM",
       "Comment\tfoo\t1",
       "Unknown",
       "LuQY (%)\t\t",
       "Bandgap (eV)\t1.4",
       "\t\t",
       "Laser intensity (suns)\tx\ty",
       "note\t0.5",
       "---",
       "Wavelength (nm)\tFlux",
       "500\t\t",
       "501\t1",
       "\t1\t2",
       "abc",
       "502\t1\tq\t3" >>

\* files whose header holds a line of dashes followed by other characters
DashLineFiles ==
    { <<"LuQY (%)\t0.44", "--s", "Bandgap (eV)\t1.4", "---",
        "Wavelength (nm)\tFlux", "500\t1">>,
      <<"LuQY (%)\t0.44", "-\\", "Bandgap (eV)\t1.4">>,
      <<"LuQY (%)\t0.44", "- -", " -- \t", "Wavelength (nm)\tFlux", "500\t1">>,
      <<"LuQY (%)\t0.44", "-x-", "-1", "Wavelength (nm)\tFlux", "500\t1">> }

\* files whose time row starts with 'time' in some case, split on tabs or on
\* white space, with empty cells
TimeCellFiles ==
    { <<"Time 2025-08-27T14:03:00 2025-08-27T14:05:00", "LuQY (%)\t0.44\t0.43">>,
      <<"TIME\ta\t\tb\tc", "Time\tq\tr", "LuQY (%)\t0.44\t0.43\t0.42">>,
      <<"LuQY (%)\t0.44", " time \tt1\tt2\t", "8/27/2025\t2:03 PM\t2:05 PM">> }

\* files whose time row starts with a date: a cell that holds a date and a
\* time of its own, a trailing tab, an empty cell between two values
DatePrefixFiles ==
    { <<"8/27/2025\t2:03 PM\t8/28/2025 9:00", "LuQY (%)\t0.44\t0.43">>,
      <<"8/27/2025\t2:03 PM\t2:05 PM\t", "LuQY (%)\t0.44\t0.43">>,
      <<"8/27/2025\t2:03 PM\t\t2:05 PM", "LuQY (%)\t0.44\t0.43\t0.42">> }

\* files without a time row whose header rows hold several values
NoTimeRowFiles ==
    { <<"LuQY (%)\t0.44\t0.43\t0.42", "---", "Wavelength (nm)\tFlux",
        "500\t1\t2\t3">>,
      <<"Bandgap (eV)\t1.4", "Subcell\ttop\tbottom", "---",
        "Wavelength (nm)\tFlux", "500\t1\t2">> }

\* files without delimiter and without time row: a row that looks like a
\* data row, a key given twice, a blank line, categorical and scaled values
NoDelimiterFiles ==
    { <<"LuQY (%)\t0.44", "500\t1\t2">>,
      <<"Bandgap (eV)\t1.4\t1.5", "", "Subcell\ttop", "Bandgap (eV)\tx",
        "Laser intensity (suns)\t0.5">>,
      <<"QFLS (eV)\t1.1", "QFLS LuQY (eV)\t1,2", "Wavelength (nm)\tFlux",
        "500\t1">> }

\* files with a setting or a result row whose label holds '/' and that has
\* two values: before the Time row, without a Time row, after the Time row
SlashLabelFiles ==
    { <<"Laser intensity (mW/cm^2)\t97.22\t50", "Time\t8/27/2025\t2:03 PM\t2:05 PM",
        "LuQY (%)\t0.44\t0.43">>,
      <<"Jsc (mA/cm^2)\t20.1\t20.2", "LuQY (%)\t0.44\t0.43">>,
      <<"Time\t8/27/2025\t2:03 PM\t2:05 PM", "Jsc (mA/cm^2)\t20.1\t20.2">> }

DirectedFiles ==
    {RowsOfAllKinds} \cup DashLineFiles \cup TimeCellFiles \cup DatePrefixFiles
        \cup NoTimeRowFiles \cup NoDelimiterFiles \cup SlashLabelFiles

\* no caller: parse_multi is called with the lines as they are
CallerIdle ==
    /\ canon_arg = ""
    /\ canon_ret = None
    /\ filename = ""
    /\ file_lines = None
    /\ is_mainfile_ret = None
    /\ child_archives = None
    /\ archive_data = None
    /\ measurements = <<>>

Init ==
    /\ lines \in HeaderFiles \cup DataFiles \cup DirectedFiles
    /\ pc = "start"
    /\ raised = "none"
    /\ delim_idx = 0
    /\ times = <<>>
    /\ times_line_idx = -1
    /\ num_measurements = 1
    /\ settings_vals_list = <<>>
    /\ result_vals_list = <<>>
    /\ idx = 0
    /\ start_idx = 0
    /\ wavelengths = <<>>
    /\ lum_lists = <<>>
    /\ raw_lists = None
    /\ dark_lists = None
    /\ raw_arrays = None
    /\ dark_arrays = None
    /\ CallerIdle

Spec == Init /\ [][Next]_vars

----------------------------------------------------------------------------
(* The spectral table: what the claims speak of                            *)

\* the value cells of a data row: the cells after the wavelength cell
ValueCells(line) == Tail(SplitLine(line))

\* a row with a first cell that parses as a number
HasWavelength(line) == Strip(line) # "" /\ ParseFloat(SplitLine(line)[1]).ok

\* a row the data loop accepts for n measurements
AcceptedRow(line, n) == HasWavelength(line) /\ Len(SplitLine(line)) >= 1 + n

\* the indices in from..(to - 1), in order, of the rows accepted for n
\* measurements
RECURSIVE AcceptedIndices(_, _, _)
AcceptedIndices(from, to, n) ==
    IF from >= to THEN <<>>
    ELSE (IF AcceptedRow(Line(from), n) THEN <<from>> ELSE <<>>)
         \o AcceptedIndices(from + 1, to, n)

\* the data rows the loop has passed so far
RowsDone == IF idx < Len(lines) THEN idx ELSE Len(lines)

\* the indices of the rows accepted so far
AcceptedSoFar == AcceptedIndices(start_idx, RowsDone, num_measurements)

\* the parsed value cells of a row, NaN for a cell that does not parse
CellValues(line) ==
    {CellOrNaN(ValueCells(line), p) : p \in 0..(Len(ValueCells(line)) - 1)}

\* C1: when the detected time row yields N >= 1 time values, there are exactly
\* N settings mappings, N results mappings and N flux sequences, and every
\* flux sequence is as long as the wavelength sequence.
C1_MeasurementCount ==
    (pc \in {"data", "done"} /\ times # <<>>) =>
        /\ Len(settings_vals_list) = Len(times)
        /\ Len(result_vals_list) = Len(times)
        /\ Len(lum_lists) = Len(times)
        /\ \A i \in 1..Len(lum_lists) : Len(lum_lists[i]) = Len(wavelengths)

\* a file with a time row of three values and two accepted data rows, parsed
C1_Witness ==
    /\ pc = "done"
    /\ Len(lines) > 0
    /\ lines[1] = "Time\t8/27/2025\t2:03 PM\t2:05 PM\t2:07 PM"
    /\ Len(times) = 3
    /\ Len(lum_lists) = 3
    /\ Len(wavelengths) = 2

\* C2: the wavelength sequence, every flux sequence and, when they are
\* returned, every raw-count and every dark-count sequence have the same
\* length, also when the accepted rows differ in their number of cells.
C2_EqualLengths ==
    pc = "done" =>
        /\ \A i \in 1..Len(lum_lists) : Len(lum_lists[i]) = Len(wavelengths)
        /\ raw_arrays # None =>
              \A i \in 1..Len(raw_arrays[1]) : Len(raw_arrays[1][i]) = Len(wavelengths)
        /\ dark_arrays # None =>
              \A i \in 1..Len(dark_arrays[1]) : Len(dark_arrays[1][i]) = Len(wavelengths)

\* C3: a row whose first cell is no number adds no entry to any sequence; the
\* k-th wavelength and the k-th entry of every flux sequence come from the
\* k-th accepted row, in input order.
C3_RowsAligned ==
    pc \in {"data", "done"} =>
        LET acc == AcceptedSoFar
        IN  /\ Len(wavelengths) = Len(acc)
            /\ \A k \in 1..Len(acc) :
                   /\ HasWavelength(Line(acc[k]))
                   /\ wavelengths[k] = ParseFloat(SplitLine(Line(acc[k]))[1]).v
            /\ \A i \in 1..Len(lum_lists) :
                   /\ Len(lum_lists[i]) = Len(acc)
                   /\ \A k \in 1..Len(acc) : lum_lists[i][k] \in CellValues(Line(acc[k]))
            /\ raw_lists # None =>
                   \A i \in 1..Len(raw_lists[1]) : Len(raw_lists[1][i]) <= Len(acc)
            /\ dark_lists # None =>
                   \A i \in 1..Len(dark_lists[1]) : Len(dark_lists[1][i]) <= Len(acc)

\* a row with a first cell that is no number between two accepted rows
C3_Witness ==
    /\ pc = "done"
    /\ Len(lines) = start_idx + 3
    /\ Line(start_idx) = "501\t2\t3"
    /\ Line(start_idx + 1) = "# end\t18\t19\t20"
    /\ Line(start_idx + 2) = "502\t4\t5\t6"
    /\ num_measurements = 2
    /\ wavelengths = <<[m |-> 501, e |-> 0], [m |-> 502, e |-> 0]>>
    /\ lum_lists[1] = <<[m |-> 2, e |-> 0], [m |-> 4, e |-> 0]>>

\* the indices in from..(to - 1), in order, of the rows with a first cell
\* that parses as a number
RECURSIVE WavelengthIndices(_, _)
WavelengthIndices(from, to) ==
    IF from >= to THEN <<>>
    ELSE (IF HasWavelength(Line(from)) THEN <<from>> ELSE <<>>)
         \o WavelengthIndices(from + 1, to)

\* C4: with N > 1 measurements the flux of measurement i of every accepted
\* row is parsed from the i-th cell after the wavelength cell, and the raw and
\* dark outputs are None, also when rows carry 2N or 3N value cells.
C4_MultiFluxOnly ==
    (pc = "done" /\ num_measurements > 1) =>
        LET acc == AcceptedSoFar
        IN  /\ \A i \in 1..num_measurements :
                   /\ Len(lum_lists[i]) = Len(acc)
                   /\ \A k \in 1..Len(acc) :
                          lum_lists[i][k] = CellOrNaN(ValueCells(Line(acc[k])), i - 1)
            /\ raw_arrays = None
            /\ dark_arrays = None

\* C5: with one measurement a row with exactly two value cells gives a flux
\* value only: raw and dark are None unless some row has at least three value
\* cells, and a row with at least three value cells gives flux, raw and dark
\* from value cells 1, 2 and 3 at that row's index.
C5_SingleChannels ==
    (pc = "done" /\ num_measurements = 1) =>
        LET acc == AcceptedSoFar
            wide(k) == Len(ValueCells(Line(acc[k]))) >= 3
        IN  /\ (raw_arrays # None \/ dark_arrays # None) => \E k \in 1..Len(acc) : wide(k)
            /\ \A k \in 1..Len(acc) : wide(k) =>
                   /\ raw_arrays # None /\ dark_arrays # None
                   /\ Len(raw_arrays[1][1]) >= k /\ Len(dark_arrays[1][1]) >= k
                   /\ lum_lists[1][k] = CellOrNaN(ValueCells(Line(acc[k])), 0)
                   /\ raw_arrays[1][1][k] = CellOrNaN(ValueCells(Line(acc[k])), 1)
                   /\ dark_arrays[1][1][k] = CellOrNaN(ValueCells(Line(acc[k])), 2)

\* C6: with N > 1 measurements a row with a first cell that parses and fewer
\* than N value cells is accepted, its missing flux slots NaN: the wavelength
\* sequence has one entry for every row with a first cell that parses.
C6_ShortRowsPadded ==
    (pc = "done" /\ num_measurements > 1) =>
        LET rows == WavelengthIndices(start_idx, Len(lines))
        IN  /\ Len(wavelengths) = Len(rows)
            /\ \A i \in 1..num_measurements :
                   /\ Len(lum_lists[i]) = Len(rows)
                   /\ \A k \in 1..Len(rows) :
                          lum_lists[i][k] = CellOrNaN(ValueCells(Line(rows[k])), i - 1)

----------------------------------------------------------------------------
(* The header rows: what the claims speak of                               *)

\* the target field of a canonical key, "" for a key of neither table
TargetOf(key) ==
    IF key \in DOMAIN header_map_settings THEN header_map_settings[key]
    ELSE IF key \in DOMAIN header_map_result THEN header_map_result[key]
    ELSE ""

\* every target field
AllFields ==
    {header_map_settings[k] : k \in DOMAIN header_map_settings}
    \cup {header_map_result[k] : k \in DOMAIN header_map_result}

\* the canonical key of a header line, "" for a line without a value cell
KeyOf(line) ==
    IF Strip(line) = "" \/ Len(SplitLine(line)) < 2 THEN ""
    ELSE _canon_key(SplitLine(line)[1])

\* a header row with a recognized key whose values are numbers
NumericRow(line) == TargetOf(KeyOf(line)) \notin {"", "subcell", "timestamp"}

\* the mapping of slot i that holds the field of a numeric row
SlotOf(line, slist, rlist, i) ==
    IF KeyOf(line) \in DOMAIN header_map_settings THEN slist[i] ELSE rlist[i]

\* stored = 100 * v, for decimals
IsTimes100(stored, v) ==
    LET e == IF v.e <= stored.e THEN v.e ELSE stored.e
    IN  /\ stored # NaN /\ v # NaN
        /\ stored.m * (10 ^ (v.e - e)) = 100 * v.m * (10 ^ (stored.e - e))

\* the value a numeric row stores for a cell that parses to v
StoredValue(key, v) == IF key = "Laser intensity (suns)" THEN Times100(v) ELSE v

\* C7: a recognized header row with k value cells, 1 <= k < num_measurements,
\* gives slots 0..k-1 the values of cells 0..k-1 and leaves the field of the
\* slots k..num_measurements-1 without a value.
C7_ShortHeaderRow ==
    [][(/\ pc = "header"
        /\ idx < delim_idx
        /\ ~HeaderLineSkipped(Line(idx), idx, times_line_idx)
        /\ NumericRow(Line(idx))
        /\ Len(ValueCells(Line(idx))) < num_measurements)
       => LET line == Line(idx)
              values == ValueCells(line)
              target == TargetOf(KeyOf(line))
          IN  \A i \in 1..num_measurements :
                  IF i <= Len(values) /\ ParseFloat(values[i]).ok
                  THEN LET d == SlotOf(line, settings_vals_list', result_vals_list', i)
                       IN  /\ target \in DOMAIN d
                           /\ d[target] = StoredValue(KeyOf(line), ParseFloat(values[i]).v)
                  ELSE /\ settings_vals_list'[i] = settings_vals_list[i]
                       /\ result_vals_list'[i] = result_vals_list[i]]_vars

\* sep.join(parts)
RECURSIVE Join(_, _)
Join(parts, sep) ==
    IF parts = <<>> THEN ""
    ELSE IF Len(parts) = 1 THEN parts[1]
    ELSE parts[1] \o sep \o Join(Tail(parts), sep)

\* the line with its k-th value cell replaced by txt
WithCell(line, k, txt) ==
    Join([SplitLine(line) EXCEPT ![k + 1] = txt], IF Contains(line, TAB) THEN TAB ELSE " ")

\* the mappings d1 and d2 agree on the field f
SameEntry(d1, d2, f) ==
    /\ f \in DOMAIN d1 <=> f \in DOMAIN d2
    /\ f \in DOMAIN d1 => d1[f] = d2[f]

\* no header row other than the one at index j has the target field
OnlyRowOf(target, j) ==
    \A j2 \in 0..(delim_idx - 1) : j2 # j => TargetOf(KeyOf(Line(j2))) # target

\* C8: an unparseable cell in a value position of a recognized numeric header
\* row raises nothing and leaves only that field of that slot unset: with any
\* parseable cell of such a row replaced by "abc", every other slot and every
\* other field is stored as before, and the field of the slot is absent when
\* no other row has it.  (A row taken as the time row gives its cells to the
\* timestamps, so there the field of the slot is its timestamp.)
C8_BadCellIsolated ==
    pc = "locate" =>
        \A j \in 0..(delim_idx - 1) : NumericRow(Line(j)) =>
            \A k \in 1..Len(ValueCells(Line(j))) : ParseFloat(ValueCells(Line(j))[k]).ok =>
                LET bad == ExtractHeader([lines EXCEPT ![j + 1] = WithCell(Line(j), k, "abc")])
                    target == TargetOf(KeyOf(Line(j)))
                    changed == IF j = times_line_idx THEN "timestamp" ELSE target
                IN  /\ Len(bad.s) = Len(settings_vals_list)
                    /\ Len(bad.r) = Len(result_vals_list)
                    /\ \A i \in 1..Len(settings_vals_list) : \A f \in AllFields :
                           \/ i = k /\ f = changed
                           \/ /\ SameEntry(bad.s[i], settings_vals_list[i], f)
                              /\ SameEntry(bad.r[i], result_vals_list[i], f)
                    /\ (/\ j # times_line_idx
                        /\ k <= Len(settings_vals_list)
                        /\ OnlyRowOf(target, j))
                       => /\ target \notin DOMAIN bad.s[k]
                          /\ target \notin DOMAIN bad.r[k]

\* the row LuQY (%) 0.44 abc 0.42 of a file with three measurements, parsed:
\* slots 0 and 2 hold their values, slot 1 holds none
C8_Witness ==
    /\ pc = "locate"
    /\ num_measurements = 3
    /\ delim_idx = 2
    /\ lines[2] = "LuQY (%)\t0.44\tabc\t0.42"
    /\ result_vals_list[1] = [luqy |-> [m |-> 44, e |-> 2]]
    /\ result_vals_list[2] = EmptyDict
    /\ result_vals_list[3] = [luqy |-> [m |-> 42, e |-> 2]]
    /\ raised = "none"

\* the slots a header row writes: all of them with a value cell for each,
\* slot 0 otherwise
WrittenSlots(values, n) == IF Len(values) >= n THEN 1..n ELSE {1}

----------------------------------------------------------------------------
(* The timestamp form the specification asks for: YYYY-MM-DDTHH:MM:SS,     *)
(* from a 12-hour time with AM/PM, then a 24-hour time, then an ISO string *)

\* the decimal digits of n, at least w of them
RECURSIVE Digits(_, _)
Digits(n, w) ==
    IF n < 10 /\ w <= 1 THEN Char("0123456789", n + 1)
    ELSE Digits(n \div 10, w - 1) \o Char("0123456789", (n % 10) + 1)

IsNumber(s) == s # "" /\ AllDigits(s)

\* a date month/day/year
IsDate(s) ==
    LET p == SplitOn(s, "/")
    IN  /\ Len(p) = 3
        /\ \A i \in 1..3 : IsNumber(p[i])
        /\ DigitsToNat(p[1]) \in 1..12
        /\ DigitsToNat(p[2]) \in 1..31

\* a time hour:minute with the hour in lo..hi
IsClock(s, lo, hi) ==
    LET p == SplitOn(s, ":")
    IN  /\ Len(p) = 2
        /\ \A i \in 1..2 : IsNumber(p[i])
        /\ DigitsToNat(p[1]) \in lo..hi
        /\ DigitsToNat(p[2]) \in 0..59

IsoOf(date, clock, hour) ==
    LET d == SplitOn(date, "/")
        c == SplitOn(clock, ":")
    IN  Digits(DigitsToNat(d[3]), 4) \o "-" \o Digits(DigitsToNat(d[1]), 2) \o "-"
        \o Digits(DigitsToNat(d[2]), 2) \o "T" \o Digits(hour, 2) \o ":"
        \o Digits(DigitsToNat(c[2]), 2) \o ":00"

\* a string of the form YYYY-MM-DDTHH:MM:SS
IsIsoForm(s) ==
    /\ Len(s) = 19
    /\ \A i \in 1..19 :
           IF i \in {5, 8} THEN Char(s, i) = "-"
           ELSE IF i = 11 THEN Char(s, i) = "T"
           ELSE IF i \in {14, 17} THEN Char(s, i) = ":"
           ELSE IsDigit(Char(s, i))

NormalizeTimestamp(s) ==
    LET w == SplitWs(Strip(s))
        h == DigitsToNat(SplitOn(w[2], ":")[1])
    IN  IF Len(w) = 3 /\ IsDate(w[1]) /\ IsClock(w[2], 1, 12) /\ w[3] \in {"AM", "PM"}
        THEN IsoOf(w[1], w[2], (h % 12) + (IF w[3] = "PM" THEN 12 ELSE 0))
        ELSE IF Len(w) = 2 /\ IsDate(w[1]) /\ IsClock(w[2], 0, 23)
        THEN IsoOf(w[1], w[2], h)
        ELSE s

\* C10: with a time row, the timestamp of every slot is its time value in the
\* form YYYY-MM-DDTHH:MM:SS, the original string only when no format parses
\* it; Time, 8/27/2025, 2:03 PM, 2:05 PM gives two timestamps of 2025-08-27.
C10_TimestampsNormalized ==
    (pc \in {"locate", "data", "done"} /\ times # <<>>) =>
        /\ Len(settings_vals_list) = Len(times)
        /\ \A i \in 1..Len(times) :
               /\ "timestamp" \in DOMAIN settings_vals_list[i]
               /\ settings_vals_list[i]["timestamp"] = NormalizeTimestamp(times[i])
        /\ (lines[1] = "Time\t8/27/2025\t2:03 PM\t2:05 PM") =>
               /\ Len(times) = 2
               /\ \A i \in 1..2 :
                      StartsWith(settings_vals_list[i]["timestamp"], "2025-08-27T")

\* the time values are stored as they are read, unconverted
C10_TimestampsAsRead ==
    (pc \in {"locate", "data", "done"} /\ times # <<>>) =>
        /\ Len(settings_vals_list) = Len(times)
        /\ \A i \in 1..Len(times) : settings_vals_list[i]["timestamp"] = times[i]

----------------------------------------------------------------------------
(* _canon_key called on its own, and once more on the key it returned      *)

\* parse_multi not running
ParseMultiIdle ==
    /\ lines = <<>>
    /\ raised = "none"
    /\ delim_idx = 0
    /\ times = <<>>
    /\ times_line_idx = -1
    /\ num_measurements = 1
    /\ settings_vals_list = <<>>
    /\ result_vals_list = <<>>
    /\ idx = 0
    /\ start_idx = 0
    /\ wavelengths = <<>>
    /\ lum_lists = <<>>
    /\ raw_lists = None
    /\ dark_lists = None
    /\ raw_arrays = None
    /\ dark_arrays = None

parseMultiVars == <<lines, raised, delim_idx, times, times_line_idx, num_measurements,
                    settings_vals_list, result_vals_list, idx, start_idx, wavelengths,
                    lum_lists, raw_lists, dark_lists, raw_arrays, dark_arrays>>

\* the spellings of the squared centimetre
UnitSpellings == {"cm²", "cm^2", "cm**2", "cm2", "cmÂ²"}

\* labels with a unit: the words of the name and what stands before the unit
UnitLabels ==
    { [words |-> <<"Subcell", "area">>, pre |-> "("],
      [words |-> <<"Laser", "spot", "size">>, pre |-> "("],
      [words |-> <<"Jsc">>, pre |-> "(mA/"] }

\* the white space between two words, and around the label
Gaps == {" ", NBSP, "  ", TAB \o " "}

Margins == {"", " ", NBSP \o TAB}

\* the label l written with the unit u, the gap g and the margin m
Spelling(l, u, g, m) ==
    m \o Join(l.words, g) \o g \o l.pre \o u \o ")" \o m

Spellings(l) == {Spelling(l, u, g, m) : u \in UnitSpellings, g \in Gaps, m \in Margins}

\* the key of the header tables for the label l
TableKey(l) == Join(l.words, " ") \o " " \o l.pre \o "cm^2)"

\* other arguments: keys without a unit, units side by side and inside one
\* another, the replacement character, white space only
OtherKeys ==
    { "", " ", "Time", " LuQY  (%) ", "QFLS" \o NBSP \o "HET (eV)", "cm2cm2", "cmcm22",
      "ccm**2", "cm*cm**2*2", "cm**cm22", "cm�", "cm^^2", "mA/cm2 cm²", "c m2",
      "cm" \o TAB \o "2", "cm 2 ", "cmÂ2", "cm²²", "cm**²" }

KeyInputs == (UNION {Spellings(l) : l \in UnitLabels}) \cup OtherKeys

KeyInit ==
    /\ ParseMultiIdle
    /\ pc = "canon"
    /\ canon_arg \in KeyInputs
    /\ canon_ret = None
    /\ filename = ""
    /\ file_lines = None
    /\ is_mainfile_ret = None
    /\ child_archives = None
    /\ archive_data = None
    /\ measurements = <<>>

\* key = _canon_key(s)
CanonKey ==
    /\ pc = "canon"
    /\ canon_ret' = Some(_canon_key(canon_arg))
    /\ pc' = "canon_done"
    /\ UNCHANGED <<parseMultiVars, canon_arg, filename, file_lines, is_mainfile_ret,
                   child_archives, archive_data, measurements>>

\* _canon_key(key), for the key just returned
CanonKeyAgain ==
    /\ pc = "canon_done"
    /\ canon_arg' = canon_ret[1]
    /\ canon_ret' = Some(_canon_key(canon_ret[1]))
    /\ pc' = "canon_twice"
    /\ UNCHANGED <<parseMultiVars, filename, file_lines, is_mainfile_ret,
                   child_archives, archive_data, measurements>>

KeyNext == CanonKey \/ CanonKeyAgain

KeySpec == KeyInit /\ [][KeyNext]_vars

\* C11: _canon_key applied to a key it returned gives that key again, and it
\* returns a string for every argument.
C11_CanonKeyIdempotent ==
    /\ pc \in {"canon_done", "canon_twice"} => Len(canon_ret) = 1 /\ Len(canon_ret[1]) >= 0
    /\ pc = "canon_twice" => canon_ret[1] = canon_arg

\* the key returned for a spelling of Subcell area, keyed again
C11_Witness ==
    /\ pc = "canon_twice"
    /\ canon_arg = "Subcell area (cm^2)"
    /\ canon_ret = Some("Subcell area (cm^2)")

\* C12: labels that differ only in the spelling of the squared centimetre
\* (cm², cm^2, cm**2, cm2, cmÂ²), in NBSP for space or in the white space
\* around and inside them get the same key; every spelling of Subcell area
\* gets the key 'Subcell area (cm^2)'.
C12_UnitSpellingsSameKey ==
    pc = "canon_done" =>
        \A l \in UnitLabels : canon_arg \in Spellings(l) => canon_ret[1] = TableKey(l)

----------------------------------------------------------------------------
(* LuQYParser.parse: read the file, parse_multi, one record for each       *)
(* measurement, the records handed to the archive and its children         *)

\* the data of an archive that parse has not written, tagged by its owner
Untouched(owner) == [untouched |-> owner]

\* int(key) of a child key
IntOfKey(key) == DigitsToNat(key)

\* the index of the record a child key gets, counted by position among the keys
RecordIndex_ByPosition(key, keys) ==
    Cardinality({k2 \in keys : IntOfKey(k2) < IntOfKey(key)})

\* idx = int(key)
RecordIndex(key, keys) == IntOfKey(key)

\* not lines, never
FileIsEmpty_Never(ls) == FALSE

\* not lines
FileIsEmpty(ls) == ls = <<>>

\* text.replace('Â²', '²'), line by line
DecodedLines(ls) == [i \in 1..Len(ls) |-> Replace(ls[i], "Â²", "²")]

\* the file is read and decoded; parse returns when it cannot be read and
\* when it has no line
ReadFile ==
    /\ pc = "read"
    /\ IF file_lines = None
       THEN /\ pc' = "returned"
            /\ UNCHANGED lines
       ELSE /\ lines' = DecodedLines(file_lines[1])
            /\ pc' = IF FileIsEmpty(lines') THEN "returned" ELSE "start"
    /\ UNCHANGED <<raised, delim_idx, times, times_line_idx, num_measurements,
                   settings_vals_list, result_vals_list, idx, start_idx, wavelengths,
                   lum_lists, raw_lists, dark_lists, raw_arrays, dark_arrays>>
    /\ UNCHANGED callerVars

\* r after the spectral arrays are set on it
WithArrays(r, i) ==
    IF wavelengths = <<>> THEN r
    ELSE LET r1 == DictSet(DictSet(r, "wavelength", wavelengths),
                           "luminescence_flux_density", lum_lists[i])
             r2 == IF raw_arrays # None
                   THEN DictSet(r1, "raw_spectrum_counts", raw_arrays[1][i]) ELSE r1
         IN  IF dark_arrays # None
             THEN DictSet(r2, "dark_spectrum_counts", dark_arrays[1][i]) ELSE r2

\* the record of the measurement at position i: its settings and its one
\* result section
MeasurementOf(i) ==
    [settings |-> settings_vals_list[i],
     results |-> <<WithArrays(result_vals_list[i], i)>>]

BuildMeasurements ==
    /\ pc = "done"
    /\ measurements' = [i \in 1..Len(settings_vals_list) |-> MeasurementOf(i)]
    /\ pc' = "distribute"
    /\ UNCHANGED <<parseMultiVars, canon_arg, canon_ret, filename, file_lines,
                   is_mainfile_ret, child_archives, archive_data>>

\* the children after each key below len(measurements) got its record
Distributed(children, ms) ==
    [k \in DOMAIN children |->
        IF RecordIndex(k, DOMAIN children) < Len(ms)
        THEN ms[RecordIndex(k, DOMAIN children) + 1]
        ELSE children[k]]

DistributeMeasurements ==
    /\ pc = "distribute"
    /\ child_archives' = IF child_archives # EmptyDict
                         THEN Distributed(child_archives, measurements)
                         ELSE child_archives
    /\ archive_data' = IF measurements # <<>> THEN measurements[1] ELSE archive_data
    /\ pc' = "parsed"
    /\ UNCHANGED <<parseMultiVars, canon_arg, canon_ret, filename, file_lines,
                   is_mainfile_ret, measurements>>

ParseNext ==
    \/ ReadFile
    \/ Next
    \/ BuildMeasurements
    \/ DistributeMeasurements

\* the number of measurements of the sweep file
SweepColumns == 15

\* a row of the sweep file: its first cell, then a cell for each measurement
SweepRow(first, cells) == first \o TAB \o Join(cells, TAB)

SweepTime(i) == "T" \o Digits(i, 1)

SweepLuQY(i) == "," \o Digits(i, 2)

SweepFlux(i) == Digits(i, 1)

\* the files handed to parse: without a line, of one measurement with raw and
\* dark counts, of two measurements, a sweep, a header without a spectral
\* table, a single blank line
ParseFiles ==
    { <<>>,
      <<"Laser intensity (mW/cmÂ²)\t97.22", "LuQY (%)\t0,44", "---",
        "Wavelength (nm)\tFlux\tRaw\tDark",
        "549,5612\t0\t1501,733\t1500,533", "550\t1\t2\t3">>,
      <<"Time\t8/27/2025\t2:03 PM\t2:05 PM", "Laser intensity (suns)\t0.9722\t0.5",
        "LuQY (%)\t0.44\t0.43", "---", "Wavelength (nm)\tFlux",
        "500\t1\t2", "501\t3\t4">>,
      <<SweepRow("Time", [i \in 1..SweepColumns |-> SweepTime(i)]),
        SweepRow("LuQY (%)", [i \in 1..SweepColumns |-> SweepLuQY(i)]),
        "---", "Wavelength (nm)\tFlux",
        SweepRow("500", [i \in 1..SweepColumns |-> SweepFlux(i)])>>,
      <<"Time\t8/27/2025 2:03 PM", "Subcell\t--">>,
      <<"">> }

\* the keys of the child archives: none, one for each measurement, keys with
\* gaps, keys past the last measurement
ChildKeySets == {{}, {"0"}, {"0", "1"}, {"0", "14"}, {"1", "2"}, {"3"}}

ParseInit ==
    /\ ParseMultiIdle
    /\ pc = "read"
    /\ file_lines \in {None} \cup {Some(f) : f \in ParseFiles}
    /\ \E keys \in ChildKeySets : child_archives = [k \in keys |-> Untouched(k)]
    /\ archive_data = Untouched("archive")
    /\ measurements = <<>>
    /\ canon_arg = ""
    /\ canon_ret = None
    /\ filename = ""
    /\ is_mainfile_ret = None

ParseSpec == ParseInit /\ [][ParseNext]_vars

\* the record of measurement column i (from 0), from what parse_multi returned
IsRecordOf(data, i) ==
    /\ DOMAIN data = {"settings", "results"}
    /\ data.settings = settings_vals_list[i + 1]
    /\ Len(data.results) = 1
    /\ \A f \in DOMAIN result_vals_list[i + 1] :
           f \in DOMAIN data.results[1] /\ data.results[1][f] = result_vals_list[i + 1][f]
    /\ wavelengths # <<>> =>
           /\ data.results[1]["wavelength"] = wavelengths
           /\ data.results[1]["luminescence_flux_density"] = lum_lists[i + 1]

C16_EmptyFileNoRecords ==
    file_lines = Some(<<>>) =>
        /\ pc \in {"read", "returned"}
        /\ measurements = <<>>
        /\ archive_data = Untouched("archive")
        /\ \A k \in DOMAIN child_archives : child_archives[k] = Untouched(k)

\* parse has returned from the file without a line, with two children
C16_Witness ==
    /\ file_lines = Some(<<>>)
    /\ pc = "returned"
    /\ lines = <<>>
    /\ DOMAIN child_archives = {"0", "1"}

----------------------------------------------------------------------------
(* LuQYParser.is_mainfile: the name of the file, then the time row among   *)
(* the lines read from it                                                  *)

\* the number of lines is_mainfile reads
ReadLines == 50

\* s ends with p
EndsWith(s, p) == Len(s) >= Len(p) /\ SubSeq(s, Len(s) - Len(p) + 1, Len(s)) = p

\* FILE_RE matches the base name
MatchesFileRe(basename) == \E ext \in {".txt", ".csv", ".tsv"} : EndsWith(basename, ext)

\* [f.readline().rstrip('\n') for _ in range(50)]: past the end, empty strings
FirstLines(ls) == [i \in 1..ReadLines |-> IF i <= Len(ls) THEN ls[i] ELSE ""]

\* the body of the loop of is_mainfile for one line: only rows with a tab
MainfileTimeRow(line) ==
    IF Contains(line, TAB) THEN TimeRow(line) ELSE [hit |-> FALSE, times |-> <<>>]

RECURSIVE FirstMainfileTimeRow(_, _)
FirstMainfileTimeRow(ls, i) ==
    IF i >= Len(ls) THEN -1
    ELSE IF MainfileTimeRow(ls[i + 1]).hit THEN i ELSE FirstMainfileTimeRow(ls, i + 1)

\* [str(i) for i in range(n)], one label short
IndexLabels_OneShort(n) == [i \in 1..(n - 1) |-> Digits(i - 1, 1)]

\* [str(i) for i in range(n)]
IndexLabels(n) == [i \in 1..n |-> Digits(i - 1, 1)]

\* what is_mainfile returns: a boolean, or the list of index labels
Returned(is_list, value) == [is_list |-> is_list, value |-> value]

IsMainfileResult(basename, fl) ==
    IF ~MatchesFileRe(basename) THEN Returned(FALSE, FALSE)
    ELSE IF fl = None THEN Returned(FALSE, TRUE)
    ELSE LET ls == FirstLines(fl[1])
             i == FirstMainfileTimeRow(ls, 0)
             ts == IF i = -1 THEN <<>> ELSE MainfileTimeRow(ls[i + 1]).times
         IN  IF Len(ts) > 1 THEN Returned(TRUE, IndexLabels(Len(ts)))
             ELSE Returned(FALSE, TRUE)

IsMainfile ==
    /\ pc = "is_mainfile"
    /\ is_mainfile_ret' = IsMainfileResult(filename, file_lines)
    /\ pc' = "is_mainfile_done"
    /\ UNCHANGED <<parseMultiVars, canon_arg, canon_ret, filename, file_lines,
                   child_archives, archive_data, measurements>>

\* base names: the three extensions, another one, upper case, no dot, an
\* extension that is not the last, the extension alone
BaseNames == {"a.txt", "b.csv", "c.tsv", "d.dat", "e.TXT", "txt", "f.txt.bak", ".txt"}

\* a row of the file and the number of time values it carries as a time row
\* of is_mainfile
MainfileRows ==
    { [row |-> "Time\tT1\tT2\tT3", n |-> 3],
      [row |-> "Time\t8/27/2025\t2:03 PM\t2:05 PM", n |-> 2],
      [row |-> "8/27/2025\t2:03 PM\t2:05 PM", n |-> 2],
      [row |-> "TIME \ta\tb\tc\td\te\tf\tg\th\ti\tj\tk\tl", n |-> 12],
      [row |-> "time\tT1", n |-> 1],
      [row |-> "8/27/2025 2:03 PM", n |-> 0],
      [row |-> "Subcell\t--", n |-> 0] }

\* k lines without a time row
Filler(k) == [i \in 1..k |-> IF i = 1 THEN "Subcell\t--" ELSE ""]

FillerLengths == {0, 2, ReadLines - 1, ReadLines}

\* the lines after the row: none, or a second time row
Trailers(r) == IF r.n > 0 THEN {<<>>, <<"Time\tA\tB\tC\tD">>} ELSE {<<>>}

\* the files given to is_mainfile, each with the number of time values of
\* the first time row among the lines read
MainfileCases ==
    UNION { { [lines |-> Filler(k) \o <<r.row>> \o a,
               n |-> IF k >= ReadLines THEN 0 ELSE r.n] : a \in Trailers(r) } :
            k \in FillerLengths, r \in MainfileRows }

MainfileInit ==
    /\ ParseMultiIdle
    /\ pc = "is_mainfile"
    /\ filename \in BaseNames
    /\ file_lines \in {None} \cup {Some(c.lines) : c \in MainfileCases}
    /\ is_mainfile_ret = None
    /\ canon_arg = ""
    /\ canon_ret = None
    /\ child_archives = None
    /\ archive_data = None
    /\ measurements = <<>>

MainfileNext == IsMainfile

MainfileSpec == MainfileInit /\ [][MainfileNext]_vars

\* the number of time values of the first time row among the lines read
ExpectedTimeValues(ls) == (CHOOSE c \in MainfileCases : c.lines = ls).n

\* C14: is_mainfile returns False for a base name that does not end in
\* .txt, .csv or .tsv; otherwise the labels '0' .. str(N-1), in this order,
\* when the first time row among the first 50 lines has N > 1 time values,
\* and True in every other case (no time row, one time value, a file that
\* cannot be read).
C14_IsMainfileLabels ==
    pc = "is_mainfile_done" =>
        LET ret == is_mainfile_ret
            named == \E ext \in {".txt", ".csv", ".tsv"} : EndsWith(filename, ext)
            n == IF file_lines = None THEN 0 ELSE ExpectedTimeValues(file_lines[1])
        IN  IF ~named THEN ~ret.is_list /\ ret.value = FALSE
            ELSE IF n > 1
            THEN /\ ret.is_list
                 /\ Len(ret.value) = n
                 /\ \A i \in 1..n : IntOfKey(ret.value[i]) = i - 1
                 /\ \A i \in 1..n : ret.value[i] \in {"0", "1", "2", "3", "4", "5", "6",
                                                       "7", "8", "9", "10", "11"}
            ELSE ~ret.is_list /\ ret.value = TRUE

\* a file named b.csv whose row 50 is a time row of twelve values
C14_Witness ==
    /\ pc = "is_mainfile_done"
    /\ filename = "b.csv"
    /\ file_lines # None
    /\ Len(file_lines[1]) = ReadLines
    /\ is_mainfile_ret.is_list
    /\ is_mainfile_ret.value = <<"0", "1", "2", "3", "4", "5", "6", "7", "8", "9", "10", "11">>

----------------------------------------------------------------------------
(* parse_multi (Spec): errors, the delimiter, the time row and the number  *)
(* of measurements.                                                        *)

\* a header row whose canonical first cell is in neither header table
UnknownKeyRow(line) ==
    /\ Strip(line) # ""
    /\ _canon_key(SplitLine(line)[1])
           \notin DOMAIN header_map_settings \cup DOMAIN header_map_result

\* C15: parse_multi raises nothing whatever the lines are: no step raises,
\* the header loop stops at the delimiter, and the lists that are returned
\* hold one mapping per measurement; the step of the header loop for
\* a row whose canonical first cell is in neither header table leaves every
\* settings mapping and every results mapping as it was.
C15_NeverRaises ==
    /\ [](raised = "none" /\ pc # "raised")
    /\ [](pc = "header" => idx <= delim_idx)
    /\ [](pc = "done" => /\ Len(settings_vals_list) = num_measurements
                         /\ Len(result_vals_list) = num_measurements
                         /\ Len(lum_lists) = num_measurements)
    /\ [][HeaderRow /\ UnknownKeyRow(Line(idx))
            => UNCHANGED <<settings_vals_list, result_vals_list>>]_vars

\* the file with rows of all kinds was parsed to the end: the unknown keys,
\* the empty and the unparseable cells stored nothing, the short header row
\* went to the first measurement, the short data rows were passed over
C15_Witness ==
    /\ pc = "done"
    /\ lines = RowsOfAllKinds
    /\ raised = "none"
    /\ settings_vals_list = << ("timestamp" :> "8/27/2025 2:03 PM"),
                               ("timestamp" :> "8/27/2025 2:05 PM") >>
    /\ result_vals_list = << ("bandgap" :> [m |-> 14, e |-> 1]), EmptyDict >>
    /\ wavelengths = << [m |-> 500, e |-> 0], [m |-> 502, e |-> 0] >>
    /\ lum_lists = << <<NaN, [m |-> 1, e |-> 0]>>, <<NaN, NaN>> >>

\* a line whose trimmed content is one or more '-' and nothing else
OnlyDashes(line) ==
    LET s == Strip(line)
    IN  s # "" /\ \A i \in 1..Len(s) : Char(s, i) = "-"

\* the index of the first line of dashes at or after index i, len(lines)
\* without one
RECURSIVE FirstOnlyDashes(_, _)
FirstOnlyDashes(ls, i) ==
    IF i >= Len(ls) THEN Len(ls)
    ELSE IF OnlyDashes(ls[i + 1]) THEN i ELSE FirstOnlyDashes(ls, i + 1)

\* C17: the boundary between header and data is the index of the first line
\* whose trimmed content is made of '-' only, so a line such as '--s' or '-\'
\* is never the delimiter; without such a line the boundary is len(lines)
\* and no spectral row is produced.
C17_DelimiterOnlyDashes ==
    /\ pc # "start" => delim_idx = FirstOnlyDashes(lines, 0)
    /\ pc = "done" /\ FirstOnlyDashes(lines, 0) = Len(lines) => wavelengths = <<>>

\* a row whose first cell reads 'time' in any case, split on tabs or, without
\* a tab, on white space
ReadsTime(line) ==
    Strip(line) # "" /\ Lower(Strip(SplitLine(line)[1])) = "time"

\* a row whose first cell holds a date
HoldsDate(line) ==
    Strip(line) # "" /\ Contains(SplitLine(line)[1], "/")

\* the index of the first header line at or after index i whose first cell
\* reads 'time' or holds a date, -1 without one
RECURSIVE FirstMatchingRow(_, _, _)
FirstMatchingRow(ls, i, delim) ==
    IF i >= delim THEN -1
    ELSE IF ReadsTime(ls[i + 1]) \/ HoldsDate(ls[i + 1]) THEN i
    ELSE FirstMatchingRow(ls, i + 1, delim)

\* a cell that holds a date without a time of day
IsDatePrefix(cell) == Contains(cell, "/") /\ ~Contains(cell, ":")

\* C18: when the first header row whose first cell reads 'time' or holds a
\* date is a row whose first cell reads 'time', split on tabs or on white
\* space, the time values are the remaining non-empty cells of that row in
\* order, num_measurements is their count, and no later row is used. (A row
\* whose first value is a date without a time of day is left out: it is
\* read as a date prefix.)
C18_TimeRowCells ==
    pc \notin {"start", "detect"} =>
        LET i == FirstMatchingRow(lines, 0, delim_idx)
        IN  i # -1 /\ ReadsTime(lines[i + 1]) =>
                LET cells == NonEmptyStripped(Tail(SplitLine(lines[i + 1])))
                IN  cells # <<>> /\ ~IsDatePrefix(cells[1]) =>
                        /\ times = cells
                        /\ num_measurements = Len(cells)
                        /\ times_line_idx = i

\* the time values an old-style row is specified to give: one for each
\* non-empty cell after the date prefix
RECURSIVE DatedCells(_, _)
DatedCells(date_prefix, cells) ==
    IF cells = <<>> THEN <<>>
    ELSE LET v == Head(cells)
         IN  <<IF Contains(v, "/") /\ Contains(v, ":") THEN v
               ELSE date_prefix \o " " \o v>>
             \o DatedCells(date_prefix, Tail(cells))

\* C19: when the time row is a tab-separated old-style row, a date prefix
\* (after the cell 'Time', if the row starts with one) followed by further
\* cells, the time values come from the non-empty cells after the prefix
\* only: a cell with '/' and ':' as it is, any other cell with the date
\* prefix and a space before it; an empty cell gives no time value and
\* num_measurements is the number of non-empty cells after the prefix.
C19_OldStyleTimes ==
    pc \notin {"start", "detect"} /\ times_line_idx # -1 =>
        LET line == Line(times_line_idx)
            parts == SplitTab(line)
            values == IF ReadsTime(line) THEN Tail(parts) ELSE parts
        IN  Contains(line, TAB) /\ Len(parts) > 2 /\ IsDatePrefix(values[1]) =>
                LET expected == DatedCells(Strip(values[1]),
                                           NonEmptyStripped(Tail(values)))
                IN  /\ times = expected
                    /\ num_measurements = Len(expected)

\* a header row whose canonical first cell is a setting or a result key
RecognizedRow(line) ==
    /\ Strip(line) # ""
    /\ _canon_key(SplitLine(line)[1])
           \in DOMAIN header_map_settings \cup DOMAIN header_map_result

\* the number of non-empty value cells of a row
ValueCount(line) == Len(NonEmptyStripped(Tail(SplitLine(line))))

\* the largest number of non-empty value cells of a recognized header row at
\* or after index i, 0 without such a row
RECURSIVE MaxValueCount(_, _, _)
MaxValueCount(ls, i, delim) ==
    IF i >= delim THEN 0
    ELSE Max(IF RecognizedRow(ls[i + 1]) THEN ValueCount(ls[i + 1]) ELSE 0,
             MaxValueCount(ls, i + 1, delim))

\* C20: in a file without a time row, num_measurements is the largest number
\* of non-empty value cells of a header row whose canonical first cell is a
\* setting or a result key, and 1 without such a row; parse_multi returns
\* that many settings mappings, results mappings and flux sequences.
C20_CountFromHeaderRows ==
    /\ pc \notin {"start", "detect"}
    /\ times_line_idx = -1
    /\ FirstMatchingRow(lines, 0, delim_idx) = -1
    => LET n == Max(1, MaxValueCount(lines, 0, delim_idx))
       IN  /\ num_measurements = n
           /\ pc = "done" => /\ Len(settings_vals_list) = n
                             /\ Len(result_vals_list) = n
                             /\ Len(lum_lists) = n

\* a header row that stores a value in slot 0 of a file of one measurement:
\* a recognized key and a first value that is categorical or parses
StoringRow(line) ==
    /\ TargetOf(KeyOf(line)) # ""
    /\ \/ TargetOf(KeyOf(line)) = "subcell"
       \/ ParseFloat(Strip(SplitLine(line)[2])).ok

\* the value such a row stores
FirstValue(line) ==
    LET v == Strip(SplitLine(line)[2])
    IN  IF TargetOf(KeyOf(line)) = "subcell" THEN v
        ELSE StoredValue(KeyOf(line), ParseFloat(v).v)

\* lines that are not empty, hold no line the delimiter pattern matches and
\* no row whose first cell reads 'time' or holds a date
NoDelimiterNoTimeRow(ls) ==
    /\ ls # <<>>
    /\ \A i \in 1..Len(ls) : ~IsDelimiter(ls[i])
    /\ FirstMatchingRow(ls, 0, Len(ls)) = -1

FieldRow(line) ==
    RecognizedRow(line) /\ _canon_key(SplitLine(line)[1]) # "Time"

\* C23: a header row whose canonical first cell is a setting or a result key
\* other than 'Time' is never taken as the time row, even with '/' in its
\* label: no time value is made from it, and in the mappings parse_multi
\* returns the field of each such row holds a value whenever the first
\* value of the row is categorical or parses.
C23_FieldRowNotTimeRow ==
    /\ pc \notin {"start", "detect"} /\ times_line_idx # -1
           => ~FieldRow(Line(times_line_idx))
    /\ pc = "done" =>
           \A i \in 1..delim_idx :
               FieldRow(lines[i]) /\ StoringRow(lines[i]) =>
                   TargetOf(KeyOf(lines[i]))
                       \in DOMAIN SlotOf(lines[i], settings_vals_list,
                                         result_vals_list, 1)

----------------------------------------------------------------------------
(* is_mainfile and parse on the same file (SlotSpec): is_mainfile            *)
(* announces the measurements, one child archive is made for each label it  *)
(* returns, and parse fills the archives.                                   *)

\* the child archives handed to parse: one for each label is_mainfile
\* returned, none when it returned True
AllocateSlots ==
    /\ pc = "is_mainfile_done"
    /\ is_mainfile_ret # None
    /\ is_mainfile_ret # Returned(FALSE, FALSE)
    /\ child_archives' =
           IF is_mainfile_ret.is_list
           THEN [k \in {is_mainfile_ret.value[i] :
                     i \in 1..Len(is_mainfile_ret.value)} |-> Untouched(k)]
           ELSE EmptyDict
    /\ archive_data' = Untouched("archive")
    /\ pc' = "read"
    /\ UNCHANGED <<parseMultiVars, canon_arg, canon_ret, filename, file_lines,
                   is_mainfile_ret, measurements>>

\* files of two, one, three and fifteen measurements, without a time row,
\* with a row taken as a time row for the '/' in its label, with a time row
\* split on white space or ending in a tab; a line without tabs that starts
\* with a date before the Time row; a line with '/' in its first cell after
\* the delimiter; a Time row past the lines is_mainfile reads
SlotFiles ==
    { <<"Time\t8/27/2025\t2:03 PM\t2:05 PM", "LuQY (%)\t0.44\t0.43", "---",
        "Wavelength (nm)\tFlux", "500\t1\t2">>,
      <<"Time\t8/27/2025 2:03 PM", "LuQY (%)\t0.44", "---",
        "Wavelength (nm)\tFlux", "500\t1">>,
      <<"TIME\ta\t\tb\tc", "LuQY (%)\t0.44\t0.43\t0.42", "---",
        "Wavelength (nm)\tFlux", "", "500\t1\t2\t3">>,
      <<SweepRow("Time", [i \in 1..SweepColumns |-> SweepTime(i)]),
        "---", "Wavelength (nm)\tFlux",
        SweepRow("500", [i \in 1..SweepColumns |-> SweepFlux(i)])>>,
      <<"LuQY (%)\t0.44\t0.43\t0.42", "---", "Wavelength (nm)\tFlux",
        "500\t1\t2\t3">>,
      <<"Laser intensity (mW/cm²)\t97.22\t50", "LuQY (%)\t0.44\t0.43">>,
      <<"Time 2025-08-27T14:03:00 2025-08-27T14:05:00", "LuQY (%)\t0.44\t0.43">>,
      <<"8/27/2025\t2:03 PM\t2:05 PM\t", "---", "Wavelength (nm)\tFlux",
        "500\t1\t2\t3">>,
      <<"8/27/2025 2:03 PM", "Time\tT1\tT2\tT3", "LuQY (%)\t0.44\t0.43\t0.42",
        "---", "Wavelength (nm)\tFlux", "500\t1\t2\t3">>,
      <<"LuQY (%)\t0.44", "---", "E/eV\tFlux\tRaw", "500\t1\t2">>,
      <<"Time\t8/27/2025 2:03 PM", "---", "E/eV\tFlux\tRaw", "500\t1\t2">>,
      Filler(ReadLines) \o <<"Time\tT1\tT2\tT3", "LuQY (%)\t0.44\t0.43\t0.42">> }

SlotInit ==
    /\ ParseMultiIdle
    /\ pc = "is_mainfile"
    /\ filename \in {"a.txt", "d.dat"}
    /\ file_lines \in {Some(f) : f \in SlotFiles}
    /\ is_mainfile_ret = None
    /\ canon_arg = ""
    /\ canon_ret = None
    /\ child_archives = None
    /\ archive_data = None
    /\ measurements = <<>>

SlotNext ==
    \/ IsMainfile
    \/ AllocateSlots
    \/ ReadFile
    \/ Next
    \/ BuildMeasurements
    \/ DistributeMeasurements

SlotSpec == SlotInit /\ [][SlotNext]_vars

\* the number of measurements is_mainfile announced: the number of labels,
\* or 1 when it returned True
Announced ==
    IF is_mainfile_ret.is_list THEN Len(is_mainfile_ret.value) ELSE 1

\* C22: for every file, the number of measurements is_mainfile announces is
\* the number of measurement records parse builds from what parse_multi
\* returns for the same lines, and every child archive made for a label of
\* is_mainfile holds a record after parse.
C22_AnnouncedIsBuilt ==
    pc = "parsed" =>
        /\ Announced = Len(measurements)
        /\ \A k \in DOMAIN child_archives : child_archives[k] # Untouched(k)

====
